---- MODULE Spec2Model ----
(***************************************************************************)
(* The ssh connection plugin (lib/ansible/plugins/connection/ssh.py):      *)
(* argument composition in _connect, the retry wrapper exec_command, one   *)
(* attempt of _exec_command with its password side channel, the select    *)
(* loop of _communicate, the escalation handshake of _exec_command, and    *)
(* the p.communicate call of fetch_file.                                   *)
(***************************************************************************)
EXTENDS Integers, Sequences, FiniteSets, TLC

VARIABLES
    C,              \* ansible.constants: the process-wide configuration
    _play_context,  \* the PlayContext handed to the Connection
    ssh_args,       \* Connection.ssh_args (an argument string)
    ssh_extra_args, \* Connection.ssh_extra_args (an argument string)
    _common_args,   \* Connection._common_args
    _connected,     \* Connection._connected
    _cp_dir,        \* Connection._cp_dir ("" while the attribute is unset)
    overrides_read, \* set_host_overrides has run
    connects,       \* number of _connect calls so far
    closed,         \* close has reset _connected at least once
    cp_check,       \* what the last _connect call did about the ControlPath directory
    error,          \* the error the last operation raised ("" when it returned)
    op,             \* the public operation in progress or finished
    pc,             \* where that operation stands
    in_data,        \* whether in_data / indata of the operation is non-empty
    sudoable,       \* the sudoable argument of exec_command
    attempt,        \* exec_command: the loop variable
    calls,          \* exec_command: invocations of _exec_command so far
    pauses,         \* exec_command: the pauses slept so far, in order
    return_tuple,   \* exec_command: the local return_tuple
    exc,            \* exec_command: the exception caught from the current attempt
    result,         \* what the operation returned to its caller
    all255,         \* every attempt so far returned a tuple with exit code 255
    sshpass,        \* the child's argv starts with sshpass -d<rfd>
    rfd,            \* Connection.rfd (0 while unset)
    wfd,            \* Connection.wfd (0 while unset)
    pipes,          \* pipes created by _password_cmd so far
    open_fds,       \* ends of those pipes the parent still holds open
    children,       \* children spawned so far
    child_rc,       \* p.returncode of the current child (None until it is reaped)
    comm,           \* what _communicate returned for the current child
    events,         \* what the current attempt did to the child and the pipe, in order
    p_pc,           \* _communicate: the statement it stands at
    rpipes,         \* _communicate: the local rpipes
    ready,          \* _communicate: rfd, the streams the last select returned
    stdout,         \* _communicate: the local stdout, a sequence of chunks
    stderr,         \* _communicate: the local stderr
    pipe,           \* the chunks waiting in the stdout and stderr pipes
    held,           \* the streams whose write end a ControlMaster keeps open
    child,          \* "running", or "exited" and not yet waited for, or "reaped"
    child_open,     \* the streams whose write end the child has open
    exit_code,      \* the code the child exited with
    budget,         \* chunks that may still be written to the pipes
    h_pc,           \* the escalation handshake: the statement it stands at
    become_output,  \* _exec_command: the local become_output
    become_errput,  \* _exec_command: the local become_errput
    passprompt,     \* _exec_command: the local passprompt
    chunk,          \* _exec_command: the local chunk
    no_prompt_out,  \* _exec_command: the local no_prompt_out
    no_prompt_err,  \* _exec_command: the local no_prompt_err
    stdin_writes,   \* times the become password was written to the child's stdin
    exc_output,     \* the output the message of the raised error carries
    exec_result     \* what _exec_command returned (line 447)

connVars == <<ssh_args, ssh_extra_args, _common_args, _connected, _cp_dir,
              overrides_read, connects, closed, cp_check>>

cfgVars == <<C, _play_context>>

retryVars == <<attempt, calls, pauses, return_tuple, exc, all255>>

procVars == <<sshpass, rfd, wfd, pipes, open_fds, children, child_rc, comm, events>>

opVars == <<op, pc, in_data, sudoable, result, retryVars, procVars>>

pumpVars == <<p_pc, rpipes, ready, stdout, stderr, pipe, held, child, child_open,
              exit_code, budget>>

becomeVars == <<h_pc, become_output, become_errput, passprompt, chunk,
                no_prompt_out, no_prompt_err, stdin_writes, exc_output, exec_result>>

vars == <<cfgVars, connVars, error, opVars, pumpVars, becomeVars>>

----------------------------------------------------------------------------
(* Bounds *)

\* _connect calls on one Connection
MaxConnects == 3

\* chunks written to the child's stdout and stderr during one _communicate
MaxChunks == 2

\* the largest ANSIBLE_SSH_RETRIES
MaxRetries == 2

\* chunks written by the child of an attempt with an escalation handshake
MaxBecomeChunks == 2

\* the largest ANSIBLE_SSH_RETRIES where the backoff is followed to its cap
MaxBackoffRetries == 7

----------------------------------------------------------------------------
(* Argument strings.  An argument string is modelled by the sequence of    *)
(* words shlex.split cuts it into (quotes already removed); a word may be  *)
(* blank, as the quoted word '" "' is.  The empty string is <<>>.          *)

\* str.strip on one word
strip(x) == IF x \in {"", " ", "  "} THEN "" ELSE x

RECURSIVE _split_args(_)
\* [x.strip() for x in shlex.split(argstring) if x.strip()]
_split_args(argstring) ==
    IF argstring = <<>> THEN <<>>
    ELSE LET x == strip(Head(argstring))
         IN  IF x = "" THEN _split_args(Tail(argstring))
             ELSE <<x>> \o _split_args(Tail(argstring))

\* "ControlPersist" in arg
HasControlPersist(arg) ==
    arg \in {"ControlPersist=60s", "ControlPersist=30s"}

\* C.ANSIBLE_SSH_CONTROL_PATH % dict(directory=self._cp_dir), wrapped as
\* ControlPath="..." by _connect
ControlPathArg == "ControlPath=\"$HOME/.ansible/cp/ansible-ssh-%h-%p-%r\""

\* "ControlPath" in arg
HasControlPath(arg) ==
    arg \in {"ControlPath=/u/cp", ControlPathArg}

\* unfrackpath('$HOME/.ansible/cp')
CpDir == "$HOME/.ansible/cp"

\* The argument strings an inventory, ansible.cfg or the command line supply
ArgStrings ==
    { <<>>,
      <<" ">>,
      <<"-o", "ForwardAgent=yes">>,
      <<"-o", "ControlPersist=30s">>,
      <<"-o", "ControlPath=/u/cp">> }

ExtraArgStrings ==
    { <<>>,
      <<"-o", "ControlPersist=30s">>,
      <<"-o", "ControlPath=/u/cp", " ">> }

----------------------------------------------------------------------------
(* _connect, lines 87-189 *)

\* lines 106-109
DefaultArgs == <<"-o", "ControlMaster=auto", "-o", "ControlPersist=60s">>

\* lines 99-110 with the test of C.ANSIBLE_SSH_ARGS before that of self.ssh_args
BaseArgs_global_first ==
    IF C.ANSIBLE_SSH_ARGS # <<>> THEN _split_args(C.ANSIBLE_SSH_ARGS)
    ELSE IF ssh_args # <<>> THEN _split_args(ssh_args)
    ELSE DefaultArgs

\* lines 99-110: the base arguments
BaseArgs ==
    IF ssh_args # <<>> THEN _split_args(ssh_args)
    ELSE IF C.ANSIBLE_SSH_ARGS # <<>> THEN _split_args(C.ANSIBLE_SSH_ARGS)
    ELSE DefaultArgs

\* lines 115-121: the scan of self._common_args
cp_in_use(args) == \E i \in 1..Len(args) : HasControlPersist(args[i])

cp_path_set(args) == \E i \in 1..Len(args) : HasControlPath(args[i])

\* line 123 with the `not` dropped
NeedsControlPath_inverted(args) == cp_in_use(args) /\ cp_path_set(args)

\* line 123
NeedsControlPath(args) == cp_in_use(args) /\ ~cp_path_set(args)

\* lines 126-129
ControlPathArgs == <<"-o", ControlPathArg>>

\* lines 136-140
HostKeyArgs ==
    IF ~C.HOST_KEY_CHECKING THEN <<"-o", "StrictHostKeyChecking=no">> ELSE <<>>

\* lines 142-146
PortArgs ==
    IF _play_context.port # "None" THEN <<"-o", "Port=2222">> ELSE <<>>

\* lines 148-153
IdentityArgs ==
    IF _play_context.private_key_file # ""
    THEN <<"-o", "IdentityFile=\"/home/u/.ssh/id_rsa\"">> ELSE <<>>

\* lines 156-162 without the test of line 155
AuthArgs_always ==
    <<"-o", "KbdInteractiveAuthentication=no",
      "-o", "PreferredAuthentications=gssapi-with-mic,gssapi-keyex,hostbased,publickey",
      "-o", "PasswordAuthentication=no">>

\* lines 155-162
AuthArgs ==
    IF _play_context.password = ""
    THEN <<"-o", "KbdInteractiveAuthentication=no",
           "-o", "PreferredAuthentications=gssapi-with-mic,gssapi-keyex,hostbased,publickey",
           "-o", "PasswordAuthentication=no">>
    ELSE <<>>

\* lines 164-169; "me" is pwd.getpwuid(os.geteuid())[0]
UserArgs ==
    IF _play_context.remote_user # "" /\ _play_context.remote_user # "me"
    THEN <<"-o", "User=deploy">> ELSE <<>>

\* lines 171-174
TimeoutArgs == <<"-o", "ConnectTimeout=10">>

\* lines 180-185
ExtraArgs ==
    IF _play_context.ssh_extra_args # <<>> THEN _split_args(_play_context.ssh_extra_args)
    ELSE IF ssh_extra_args # <<>> THEN _split_args(ssh_extra_args)
    ELSE <<>>

\* lines 136-185: everything _connect appends after the ControlPath fix-up
RestArgs ==
    HostKeyArgs \o PortArgs \o IdentityArgs \o AuthArgs \o UserArgs
        \o TimeoutArgs \o ExtraArgs

\* self._common_args after lines 99-110
WithBase == _common_args \o BaseArgs

\* self._common_args after lines 123-129
WithControlPath ==
    IF NeedsControlPath(WithBase) THEN WithBase \o ControlPathArgs ELSE WithBase

\* lines 99-185 on a new Connection, whose _common_args is empty
FreshArgs ==
    LET withPath == IF NeedsControlPath(BaseArgs)
                    THEN BaseArgs \o ControlPathArgs ELSE BaseArgs
    IN  withPath \o RestArgs

\* lines 87-189 without the early return of lines 92-93
_connect_no_early_return(writable) ==
    /\ connects < MaxConnects
    /\ connects' = connects + 1
    /\ IF NeedsControlPath(WithBase) /\ ~writable
       THEN /\ _common_args' = WithControlPath
            /\ _cp_dir' = CpDir
            /\ cp_check' = "failed"
            /\ error' = "Cannot write to ControlPath"
            /\ UNCHANGED _connected
       ELSE /\ _common_args' = WithControlPath \o RestArgs
            /\ _cp_dir' = IF NeedsControlPath(WithBase) THEN CpDir ELSE _cp_dir
            /\ cp_check' = IF NeedsControlPath(WithBase) THEN "ok" ELSE "skipped"
            /\ _connected' = TRUE
            /\ error' = ""
    /\ UNCHANGED <<ssh_args, ssh_extra_args, overrides_read, closed>>
    /\ UNCHANGED <<cfgVars, becomeVars, opVars, pumpVars>>

\* lines 87-189, with os.access(self._cp_dir, os.W_OK) answering `writable`
_connect(writable) ==
    /\ connects < MaxConnects
    /\ connects' = connects + 1
    /\ IF _connected
       THEN /\ error' = ""
            /\ UNCHANGED <<_common_args, _connected, _cp_dir, cp_check>>
       ELSE IF NeedsControlPath(WithBase) /\ ~writable
       THEN /\ _common_args' = WithControlPath
            /\ _cp_dir' = CpDir
            /\ cp_check' = "failed"
            /\ error' = "Cannot write to ControlPath"
            /\ UNCHANGED _connected
       ELSE /\ _common_args' = WithControlPath \o RestArgs
            /\ _cp_dir' = IF NeedsControlPath(WithBase) THEN CpDir ELSE _cp_dir
            /\ cp_check' = IF NeedsControlPath(WithBase) THEN "ok" ELSE "skipped"
            /\ _connected' = TRUE
            /\ error' = ""
    /\ UNCHANGED <<ssh_args, ssh_extra_args, overrides_read, closed>>
    /\ UNCHANGED <<cfgVars, becomeVars, opVars, pumpVars>>

\* lines 59-64; v is host.get_vars(), a function from the variables the
\* host defines to their values
set_host_overrides(v) ==
    /\ ~overrides_read
    /\ connects = 0
    /\ overrides_read' = TRUE
    /\ ssh_extra_args' = IF "ansible_ssh_extra_args" \in DOMAIN v
                         THEN v["ansible_ssh_extra_args"] ELSE ssh_extra_args
    /\ ssh_args' = IF "ansible_ssh_args" \in DOMAIN v
                   THEN v["ansible_ssh_args"] ELSE ssh_args
    /\ error' = ""
    /\ UNCHANGED <<_common_args, _connected, _cp_dir, connects, closed, cp_check>>
    /\ UNCHANGED <<cfgVars, becomeVars, opVars, pumpVars>>

\* lines 516-530
close ==
    /\ _connected
    /\ _connected' = FALSE
    /\ closed' = TRUE
    /\ error' = ""
    /\ UNCHANGED <<ssh_args, ssh_extra_args, _common_args, _cp_dir,
                   overrides_read, connects, cp_check>>
    /\ UNCHANGED <<cfgVars, becomeVars, opVars, pumpVars>>

\* the host variables set_host_overrides may find
HostVars ==
    { v \in UNION { [K -> ArgStrings \cup ExtraArgStrings] :
                    K \in SUBSET {"ansible_ssh_args", "ansible_ssh_extra_args"} } :
        /\ "ansible_ssh_args" \in DOMAIN v => v["ansible_ssh_args"] \in ArgStrings
        /\ "ansible_ssh_extra_args" \in DOMAIN v
              => v["ansible_ssh_extra_args"] \in ExtraArgStrings }

\* the PlayContext fields _connect reads; the others are those of a task
\* without privilege escalation
ConnectContexts ==
    [port : {"None", "2222"},
     private_key_file : {"", "~/.ssh/id_rsa"},
     password : {"", "secret"},
     remote_user : {"", "me", "deploy"},
     timeout : {10},
     ssh_extra_args : ExtraArgStrings,
     prompt : {""},
     become : {FALSE},
     become_pass : {""}]

\* the configuration _connect reads
ConnectConfigs ==
    [ANSIBLE_SSH_ARGS : {<<>>, <<"-o", "ForwardAgent=yes">>, <<"-o", "ControlPersist=30s">>},
     HOST_KEY_CHECKING : BOOLEAN,
     ANSIBLE_SSH_RETRIES : {0},
     DEFAULT_SCP_IF_SSH : {FALSE}]

\* lines 48-57: a new Connection
ConnInit ==
    /\ _common_args = <<>>
    /\ ssh_extra_args = <<>>
    /\ ssh_args = <<>>
    /\ _connected = FALSE
    /\ _cp_dir = ""
    /\ overrides_read = FALSE
    /\ connects = 0
    /\ closed = FALSE
    /\ cp_check = "none"

\* p.returncode of a child that was not waited for (line 265)
None == -1

\* return_tuple before the first assignment of line 308
NoTuple == [rc |-> None, stdout |-> 0, stderr |-> FALSE]

\* no operation was called yet
OpInit ==
    /\ op = "none"
    /\ pc = "idle"
    /\ in_data = FALSE
    /\ sudoable = TRUE
    /\ result = NoTuple
    /\ attempt = 0
    /\ calls = 0
    /\ pauses = <<>>
    /\ return_tuple = NoTuple
    /\ exc = ""
    /\ all255 = TRUE
    /\ sshpass = FALSE
    /\ rfd = 0
    /\ wfd = 0
    /\ pipes = 0
    /\ open_fds = {}
    /\ children = 0
    /\ child_rc = None
    /\ comm = NoTuple
    /\ events = <<>>

\* _communicate is not running
PumpIdle ==
    /\ p_pc = "idle"
    /\ rpipes = {}
    /\ ready = {}
    /\ stdout = <<>>
    /\ stderr = <<>>
    /\ pipe = [s \in {"stdout", "stderr"} |-> <<>>]
    /\ held = {}
    /\ child = "none"
    /\ child_open = {}
    /\ exit_code = None
    /\ budget = 0

\* chunk before its first assignment (lines 407, 413)
Unbound == <<"unbound">>

\* _exec_command has returned nothing
NoResult == [rc |-> None, stdout |-> <<>>, stderr |-> <<>>]

\* the escalation handshake is not running
BecomeIdle ==
    /\ h_pc = "idle"
    /\ become_output = <<>>
    /\ become_errput = <<>>
    /\ passprompt = FALSE
    /\ chunk = Unbound
    /\ no_prompt_out = <<>>
    /\ no_prompt_err = <<>>
    /\ stdin_writes = 0
    /\ exc_output = <<>>
    /\ exec_result = NoResult

InitConnect ==
    /\ C \in ConnectConfigs
    /\ _play_context \in ConnectContexts
    /\ ConnInit
    /\ error = ""
    /\ OpInit
    /\ PumpIdle
    /\ BecomeIdle

NextConnect ==
    \/ \E v \in HostVars : set_host_overrides(v)
    \/ \E writable \in BOOLEAN : _connect(writable)
    \/ close

SpecConnect == InitConnect /\ [][NextConnect]_vars

----------------------------------------------------------------------------
(* exec_command, put_file and fetch_file: one step per function the        *)
(* operation calls.  A child's output is named by the number of the child  *)
(* that wrote it; of stderr only the ControlPersist complaint is kept.     *)

\* the exit codes a child ends with
ExitCodes == {0, 1, 6, 254, 255}

\* line 304
remaining_tries == C.ANSIBLE_SSH_RETRIES + 1

\* line 320 without the cap of lines 321-322
pause_uncapped == 2 ^ attempt - 1

\* lines 320-322
pause == IF 2 ^ attempt - 1 > 30 THEN 30 ELSE 2 ^ attempt - 1

\* line 317 with the budget counted one short
LastAttempt_one_early == attempt >= remaining_tries - 2

\* line 317
LastAttempt == attempt = remaining_tries - 1

\* the configuration and escalation-password errors _exec_command raises
\* (lines 216, 249, 438, 441, and check_incorrect_password)
FatalErrors ==
    { "you must install the sshpass program",
      "Using a SSH password instead of a key is not possible",
      "older ssh versions may not support ControlPersist",
      "Missing become password",
      "Incorrect become password" }

\* line 312 without `or attempt == (remaining_tries - 1)`
BreaksLoop_only_on_success(t) == t.rc # 255

\* line 312: the loop of exec_command ends with this tuple
BreaksLoop(t) == t.rc # 255 \/ LastAttempt

\* lines 316-332 with an except clause that lets the fatal errors through
Handle_fatal_not_retried(e) ==
    IF op = "exec_command"
    THEN /\ exc' = e
         /\ IF LastAttempt \/ e \in FatalErrors
            THEN /\ pc' = "done"
                 /\ error' = e
                 /\ pauses' = pauses
            ELSE /\ pc' = "sleep"
                 /\ pauses' = Append(pauses, pause)
                 /\ error' = error
    ELSE /\ pc' = "done"
         /\ error' = e
         /\ UNCHANGED <<exc, pauses>>

\* lines 316-332: the except clause of exec_command catching e; an exception
\* of put_file or fetch_file reaches the caller
Handle(e) ==
    IF op = "exec_command"
    THEN /\ exc' = e
         /\ IF LastAttempt
            THEN /\ pc' = "done"
                 /\ error' = e
                 /\ pauses' = pauses
            ELSE /\ pc' = "sleep"
                 /\ pauses' = Append(pauses, pause)
                 /\ error' = error
    ELSE /\ pc' = "done"
         /\ error' = e
         /\ UNCHANGED <<exc, pauses>>

\* an exception e leaves _exec_command, put_file or fetch_file
Raise(e) == Handle(e) /\ all255' = FALSE

\* lines 292-308: exec_command is called and enters its first attempt
exec_command(data, sudo) ==
    /\ pc = "idle"
    /\ op' = "exec_command"
    /\ in_data' = data
    /\ sudoable' = sudo
    /\ attempt' = 0
    /\ calls' = 1
    /\ pc' = "password_cmd"
    /\ UNCHANGED <<result, pauses, return_tuple, exc, all255, error, procVars>>
    /\ UNCHANGED <<cfgVars, becomeVars, connVars, pumpVars>>

\* lines 331-332 and 306-308: the pause is over, the next attempt starts
sleep ==
    /\ pc = "sleep"
    /\ attempt' = attempt + 1
    /\ calls' = calls + 1
    /\ exc' = ""
    /\ child_rc' = None
    /\ comm' = NoTuple
    /\ events' = <<>>
    /\ pc' = "password_cmd"
    /\ UNCHANGED <<op, in_data, sudoable, result, pauses, return_tuple, all255, error>>
    /\ UNCHANGED <<sshpass, rfd, wfd, pipes, open_fds, children>>
    /\ UNCHANGED <<cfgVars, becomeVars, connVars, pumpVars>>

\* lines 449-457 with line 457, cmd = self._password_cmd(), moved before
\* the test of line 455 (sshpass being installed)
put_file_password_cmd_first(exists) ==
    /\ pc = "idle"
    /\ op' = "put_file"
    /\ in_data' = ~C.DEFAULT_SCP_IF_SSH
    /\ IF exists
       THEN /\ pc' = "password_cmd" /\ error' = error
            /\ UNCHANGED <<sshpass, rfd, wfd, pipes, open_fds>>
       ELSE /\ pc' = "done" /\ error' = "file or module does not exist"
            /\ IF _play_context.password # ""
               THEN /\ pipes' = pipes + 1
                    /\ rfd' = 2 * pipes + 1
                    /\ wfd' = 2 * pipes + 2
                    /\ open_fds' = open_fds \cup {2 * pipes + 1, 2 * pipes + 2}
                    /\ sshpass' = TRUE
               ELSE UNCHANGED <<sshpass, rfd, wfd, pipes, open_fds>>
    /\ UNCHANGED <<sudoable, result, retryVars, children, child_rc, comm, events>>
    /\ UNCHANGED <<cfgVars, becomeVars, connVars, pumpVars>>

\* lines 449-457: put_file is called; `exists` is os.path.exists(in_path)
put_file(exists) ==
    /\ pc = "idle"
    /\ op' = "put_file"
    /\ in_data' = ~C.DEFAULT_SCP_IF_SSH
    /\ IF exists
       THEN pc' = "password_cmd" /\ error' = error
       ELSE pc' = "done" /\ error' = "file or module does not exist"
    /\ UNCHANGED <<sudoable, result, retryVars, procVars>>
    /\ UNCHANGED <<cfgVars, becomeVars, connVars, pumpVars>>

\* lines 483-489: fetch_file is called
fetch_file ==
    /\ pc = "idle"
    /\ op' = "fetch_file"
    /\ in_data' = ~C.DEFAULT_SCP_IF_SSH
    /\ pc' = "password_cmd"
    /\ UNCHANGED <<sudoable, result, retryVars, procVars, error>>
    /\ UNCHANGED <<cfgVars, becomeVars, connVars, pumpVars>>

\* lines 210-219 (and the argv built around them, lines 343-357, 457-472,
\* 489-507); `installed` says whether Popen(["sshpass"]) finds the program
_password_cmd(installed) ==
    /\ pc = "password_cmd"
    /\ IF _play_context.password # ""
       THEN IF installed
            THEN /\ pipes' = pipes + 1
                 /\ rfd' = 2 * pipes + 1
                 /\ wfd' = 2 * pipes + 2
                 /\ open_fds' = open_fds \cup {2 * pipes + 1, 2 * pipes + 2}
                 /\ sshpass' = TRUE
                 /\ pc' = "run"
                 /\ UNCHANGED <<exc, pauses, all255, error>>
            ELSE /\ Raise("you must install the sshpass program")
                 /\ UNCHANGED <<pipes, rfd, wfd, open_fds, sshpass>>
       ELSE /\ sshpass' = FALSE
            /\ pc' = "run"
            /\ UNCHANGED <<pipes, rfd, wfd, open_fds, exc, pauses, all255, error>>
    /\ UNCHANGED <<op, in_data, sudoable, result, attempt, calls, return_tuple>>
    /\ UNCHANGED <<children, child_rc, comm, events>>
    /\ UNCHANGED <<cfgVars, becomeVars, connVars, pumpVars>>

\* line 55: self.host is PlayContext.remote_addr, here the IPv6 loopback
host == "::1"

\* the in_path and out_path of a transfer, and the cmd of exec_command
in_path == "/srv/app.conf"

out_path == "/tmp/my app.conf"

\* pipes.quote: a string of safe characters is left alone, any other is
\* wrapped in single quotes
quote(x) == IF x \in {"/srv/app.conf", "/tmp/app.conf"} THEN x ELSE "'" \o x \o "'"

\* lines 218-219: what _password_cmd returned
password_cmd ==
    IF sshpass THEN <<"sshpass", "-d" \o ToString(rfd)>> ELSE <<>>

\* lines 342-357, for PlayContext.verbosity <= 3
ssh_cmd ==
    password_cmd \o <<"ssh", "-C">>
        \o (IF ~in_data THEN <<"-tt">> ELSE <<>>)
        \o <<"-q">> \o _common_args \o <<host, "/bin/sh -c 'id'">>

\* lines 457-472 with the host left as it is, as fetch_file leaves it
put_file_cmd_unbracketed ==
    IF C.DEFAULT_SCP_IF_SSH
    THEN password_cmd \o <<"scp">> \o _common_args
            \o <<in_path, host \o ":" \o quote(out_path)>>
    ELSE password_cmd \o <<"sftp">> \o _common_args \o <<host>>

\* lines 457-472: cmd of put_file
put_file_cmd ==
    IF C.DEFAULT_SCP_IF_SSH
    THEN password_cmd \o <<"scp">> \o _common_args
            \o <<in_path, "[" \o host \o "]" \o ":" \o quote(out_path)>>
    ELSE password_cmd \o <<"sftp">> \o _common_args \o <<"[" \o host \o "]">>

\* lines 489-507, for C.DEFAULT_SFTP_BATCH_MODE at its default, true: cmd of
\* fetch_file
fetch_file_cmd ==
    IF C.DEFAULT_SCP_IF_SSH
    THEN password_cmd \o <<"scp">> \o _common_args
            \o <<host \o ":" \o in_path, out_path>>
    ELSE password_cmd \o <<"sftp", "-b", "-">> \o _common_args \o <<host>>

\* the argv handed to _run (lines 363, 474) or to Popen (line 509)
cmd ==
    CASE op = "put_file" -> put_file_cmd
      [] op = "fetch_file" -> fetch_file_cmd
      [] OTHER -> ssh_cmd

\* lines 191-208 (exec_command, put_file) and line 509 (fetch_file): the
\* child is spawned, or Popen raises OSError
_run(spawned) ==
    /\ pc = "run"
    /\ IF spawned
       THEN /\ children' = children + 1
            /\ events' = Append(events, "spawn")
            /\ pc' = "send_password"
            /\ UNCHANGED <<exc, pauses, all255, error>>
       ELSE /\ Raise("OSError: Popen")
            /\ UNCHANGED <<children, events>>
    /\ UNCHANGED <<op, in_data, sudoable, result, attempt, calls, return_tuple>>
    /\ UNCHANGED <<sshpass, rfd, wfd, pipes, open_fds, child_rc, comm>>
    /\ UNCHANGED <<cfgVars, becomeVars, connVars, pumpVars>>

\* what follows _send_password: lines 370, 430, 478, 511
AfterSendPassword ==
    IF op = "exec_command" /\ _play_context.prompt # "" THEN "handshake"
    ELSE IF op = "fetch_file" THEN "Popen_communicate"
    ELSE "communicate"

\* lines 223-225 with the write moved before the close of the read end
SendPasswordEvents_write_first == <<"write_password", "close_rfd", "close_wfd">>

\* lines 223-225, in the order of the statements
SendPasswordEvents == <<"close_rfd", "write_password", "close_wfd">>

\* lines 221-225; `written` says whether os.write succeeds
_send_password(written) ==
    /\ pc = "send_password"
    /\ IF _play_context.password # ""
       THEN IF written
            THEN /\ open_fds' = open_fds \ {rfd, wfd}
                 /\ events' = events \o SendPasswordEvents
                 /\ pc' = AfterSendPassword
                 /\ UNCHANGED <<exc, pauses, all255, error>>
            ELSE /\ open_fds' = open_fds \ {rfd}
                 /\ events' = events \o SubSeq(SendPasswordEvents, 1, 1)
                 /\ Raise("OSError: write")
       ELSE /\ pc' = AfterSendPassword
            /\ UNCHANGED <<open_fds, events, exc, pauses, all255, error>>
    /\ UNCHANGED <<op, in_data, sudoable, result, attempt, calls, return_tuple>>
    /\ UNCHANGED <<sshpass, rfd, wfd, pipes, children, child_rc, comm>>
    /\ UNCHANGED <<cfgVars, becomeVars, connVars, pumpVars>>

\* how the loop of lines 388-420 ends
HandshakeEnds == {"success", "passprompt", "eof", "timeout", "incorrect"}

\* lines 370-427: the escalation handshake, by the way its loop ends; on a
\* timeout p.communicate() reaps the child, which ended with `rc`
handshake(how, rc) ==
    /\ pc = "handshake"
    /\ how \in HandshakeEnds
    /\ CASE how \in {"success", "eof"} ->
              /\ events' = Append(events, "read")
              /\ pc' = "communicate"
              /\ UNCHANGED <<child_rc, exc, pauses, all255, error>>
         [] how = "passprompt" ->
              /\ events' = events \o <<"read", "stdin_write">>
              /\ pc' = "communicate"
              /\ UNCHANGED <<child_rc, exc, pauses, all255, error>>
         [] how = "timeout" ->
              /\ events' = Append(events, "read")
              /\ child_rc' = rc
              /\ Raise("Connection error waiting for privilege escalation password prompt")
         [] how = "incorrect" ->
              /\ events' = Append(events, "read")
              /\ child_rc' = child_rc
              /\ Raise("Incorrect become password")
    /\ UNCHANGED <<op, in_data, sudoable, result, attempt, calls, return_tuple>>
    /\ UNCHANGED <<sshpass, rfd, wfd, pipes, open_fds, children, comm>>
    /\ UNCHANGED <<cfgVars, becomeVars, connVars, pumpVars>>

\* how _communicate ends
CommunicateEnds == {"returns", "write_failed", "incorrect", "missing"}

\* lines 227-278, by the way the call ends: it returns (rc, stdout, stderr)
\* with stderr holding the ControlPersist complaint or not, the write of
\* line 236 fails, or a check of lines 245-249 raises
_communicate(how, rc, cp_error) ==
    /\ pc = "communicate"
    /\ how \in CommunicateEnds
    /\ how = "write_failed" => in_data
    /\ how = "incorrect" =>
          _play_context.become /\ sudoable /\ _play_context.become_pass # ""
    /\ how = "missing" =>
          _play_context.become /\ sudoable /\ _play_context.become_pass = ""
    /\ CASE how = "returns" ->
              /\ events' = IF in_data THEN events \o <<"stdin_write", "read">>
                                      ELSE Append(events, "read")
              /\ child_rc' = rc
              /\ comm' = [rc |-> rc, stdout |-> children, stderr |-> cp_error]
              /\ pc' = IF op = "exec_command" THEN "exec_end" ELSE "transfer_end"
              /\ UNCHANGED <<exc, pauses, all255, error>>
         [] how = "write_failed" ->
              /\ events' = Append(events, "stdin_write")
              /\ UNCHANGED <<child_rc, comm>>
              /\ Raise("SSH Error: data could not be sent to the remote host")
         [] how = "incorrect" ->
              /\ events' = IF in_data THEN events \o <<"stdin_write", "read">>
                                      ELSE Append(events, "read")
              /\ UNCHANGED <<child_rc, comm>>
              /\ Raise("Incorrect become password")
         [] how = "missing" ->
              /\ events' = IF in_data THEN events \o <<"stdin_write", "read">>
                                      ELSE Append(events, "read")
              /\ UNCHANGED <<child_rc, comm>>
              /\ Raise("Missing become password")
    /\ UNCHANGED <<op, in_data, sudoable, result, attempt, calls, return_tuple>>
    /\ UNCHANGED <<sshpass, rfd, wfd, pipes, open_fds, children>>
    /\ UNCHANGED <<cfgVars, becomeVars, connVars, pumpVars>>

\* line 511: p.communicate(indata) of fetch_file
Popen_communicate(rc, cp_error) ==
    /\ pc = "Popen_communicate"
    /\ events' = IF in_data THEN events \o <<"stdin_write", "read">>
                            ELSE Append(events, "read")
    /\ child_rc' = rc
    /\ comm' = [rc |-> rc, stdout |-> children, stderr |-> cp_error]
    /\ pc' = "transfer_end"
    /\ UNCHANGED <<op, in_data, sudoable, result, retryVars, error>>
    /\ UNCHANGED <<sshpass, rfd, wfd, pipes, open_fds, children>>
    /\ UNCHANGED <<cfgVars, becomeVars, connVars, pumpVars>>

\* line 434
controlpersisterror == comm.stderr

\* lines 436-445 with line 444 testing any failure instead of 255
ExecError_any_failure ==
    IF C.HOST_KEY_CHECKING /\ sshpass /\ child_rc = 6
    THEN "Using a SSH password instead of a key is not possible"
    ELSE IF child_rc # 0 /\ controlpersisterror
    THEN "older ssh versions may not support ControlPersist"
    ELSE IF child_rc # 0 /\ in_data
    THEN "SSH Error: data could not be sent to the remote host"
    ELSE ""

\* lines 436-445: the error _exec_command raises after the pump, "" if none
ExecError ==
    IF C.HOST_KEY_CHECKING /\ sshpass /\ child_rc = 6
    THEN "Using a SSH password instead of a key is not possible"
    ELSE IF child_rc # 0 /\ controlpersisterror
    THEN "older ssh versions may not support ControlPersist"
    ELSE IF child_rc = 255 /\ in_data
    THEN "SSH Error: data could not be sent to the remote host"
    ELSE ""

\* lines 432-447 and 308-335: _exec_command raises or returns its tuple, and
\* exec_command returns it or treats exit code 255 as a failed attempt
exec_end ==
    /\ pc = "exec_end"
    /\ IF ExecError # ""
       THEN /\ Raise(ExecError)
            /\ UNCHANGED <<return_tuple, result>>
       ELSE /\ return_tuple' = comm
            /\ all255' = (all255 /\ comm.rc = 255)
            /\ IF BreaksLoop(comm)
               THEN /\ result' = comm
                    /\ pc' = "done"
                    /\ UNCHANGED <<exc, pauses, error>>
               ELSE /\ Handle("Failed to connect to the host via ssh.")
                    /\ UNCHANGED result
    /\ UNCHANGED <<op, in_data, sudoable, attempt, calls, procVars>>
    /\ UNCHANGED <<cfgVars, becomeVars, connVars, pumpVars>>

\* lines 480-481 and 513-514
transfer_end ==
    /\ pc = "transfer_end"
    /\ IF child_rc # 0
       THEN Raise("failed to transfer file")
       ELSE pc' = "done" /\ UNCHANGED <<exc, pauses, all255, error>>
    /\ UNCHANGED <<op, in_data, sudoable, result, attempt, calls, return_tuple, procVars>>
    /\ UNCHANGED <<cfgVars, becomeVars, connVars, pumpVars>>

\* the PlayContext fields the three operations read: a task without
\* escalation, or one with become and any of prompt and become_pass
OpContexts ==
    { c \in [port : {"None"},
             private_key_file : {""},
             password : {"", "secret"},
             remote_user : {""},
             timeout : {10},
             ssh_extra_args : {<<>>},
             prompt : {"", "[sudo] password: "},
             become : BOOLEAN,
             become_pass : {"", "hunter2"}] :
        ~c.become => (c.prompt = "" /\ c.become_pass = "") }

\* the configuration the three operations read
OpConfigs ==
    [ANSIBLE_SSH_ARGS : {<<>>},
     HOST_KEY_CHECKING : BOOLEAN,
     ANSIBLE_SSH_RETRIES : 0..MaxRetries,
     DEFAULT_SCP_IF_SSH : BOOLEAN]

\* a Connection after __init__ and a first successful _connect
Init ==
    /\ C \in OpConfigs
    /\ _play_context \in OpContexts
    /\ ssh_extra_args = <<>>
    /\ ssh_args = <<>>
    /\ _common_args = FreshArgs
    /\ _connected = TRUE
    /\ _cp_dir = CpDir
    /\ overrides_read = FALSE
    /\ connects = 1
    /\ closed = FALSE
    /\ cp_check = "ok"
    /\ error = ""
    /\ OpInit
    /\ PumpIdle
    /\ BecomeIdle

Next ==
    \/ \E data \in BOOLEAN, sudo \in BOOLEAN : exec_command(data, sudo)
    \/ \E exists \in BOOLEAN : put_file(exists)
    \/ fetch_file
    \/ \E installed \in BOOLEAN : _password_cmd(installed)
    \/ \E spawned \in BOOLEAN : _run(spawned)
    \/ \E written \in BOOLEAN : _send_password(written)
    \/ \E how \in HandshakeEnds, rc \in ExitCodes : handshake(how, rc)
    \/ \E how \in CommunicateEnds, rc \in ExitCodes, cp_error \in BOOLEAN :
          _communicate(how, rc, cp_error)
    \/ \E rc \in ExitCodes, cp_error \in BOOLEAN : Popen_communicate(rc, cp_error)
    \/ exec_end
    \/ transfer_end
    \/ sleep
    \* _connect may be called again before the operation
    \/ pc = "idle" /\ \E writable \in BOOLEAN : _connect(writable)

Spec == Init /\ [][Next]_vars

----------------------------------------------------------------------------
(* exec_command alone, for retry budgets large enough that the backoff     *)
(* reaches its cap: a task without password and without escalation.        *)

\* the exit codes of a child whose command succeeds or whose ssh fails
RetryExitCodes == {0, 255}

\* a connected Connection with ANSIBLE_SSH_RETRIES up to MaxBackoffRetries
InitRetry ==
    /\ C \in [ANSIBLE_SSH_ARGS : {<<>>},
               HOST_KEY_CHECKING : {TRUE},
               ANSIBLE_SSH_RETRIES : 0..MaxBackoffRetries,
               DEFAULT_SCP_IF_SSH : {FALSE}]
    /\ _play_context \in {c \in OpContexts : ~c.become /\ c.password = ""}
    /\ ssh_extra_args = <<>>
    /\ ssh_args = <<>>
    /\ _common_args = FreshArgs
    /\ _connected = TRUE
    /\ _cp_dir = CpDir
    /\ overrides_read = FALSE
    /\ connects = 1
    /\ closed = FALSE
    /\ cp_check = "ok"
    /\ error = ""
    /\ OpInit
    /\ PumpIdle
    /\ BecomeIdle

NextRetry ==
    \/ \E data \in BOOLEAN : exec_command(data, TRUE)
    \/ _password_cmd(TRUE)
    \/ \E spawned \in BOOLEAN : _run(spawned)
    \/ _send_password(TRUE)
    \/ \E how \in {"returns", "write_failed"}, rc \in RetryExitCodes :
          _communicate(how, rc, FALSE)
    \/ exec_end
    \/ sleep

SpecRetry == InitRetry /\ [][NextRetry]_vars

----------------------------------------------------------------------------
(* _communicate, lines 227-278, statement by statement, beside the child   *)
(* that writes to the two pipes and exits, and a ControlMaster that may    *)
(* keep the write end of a pipe open after the child is gone.              *)

Streams == {"stdout", "stderr"}

\* what a chunk of output shows to the escalation predicate that the
\* checks of lines 245-249 apply, if they apply one
Chunks ==
    IF ~(_play_context.become /\ sudoable) THEN {"output"}
    ELSE IF _play_context.become_pass # "" THEN {"output", "incorrect"}
    ELSE {"output", "prompt"}

InBuf(buf, c) == \E i \in 1..Len(buf) : buf[i] = c

\* ConnectionBase.check_password_prompt, a predicate over the buffer
check_password_prompt(buf) == InBuf(buf, "prompt")

\* ConnectionBase.check_incorrect_password raises when the buffer shows the
\* failure message of the become method
check_incorrect_password(buf) == InBuf(buf, "incorrect")

\* the write end of stream s is closed everywhere
WriteEndClosed(s) == s \notin child_open /\ s \notin held

\* select reports s: data waits in the pipe, or a read would return EOF
Readable(s) == pipe[s] # <<>> \/ WriteEndClosed(s)

\* p.poll() is not None
Exited == child # "running"

\* the child writes one chunk to a pipe
child_write(s, c) ==
    /\ p_pc \notin {"idle", "returned", "raised"}
    /\ child = "running"
    /\ s \in child_open
    /\ budget > 0
    /\ budget' = budget - 1
    /\ pipe' = [pipe EXCEPT ![s] = Append(@, c)]
    /\ UNCHANGED <<p_pc, rpipes, ready, stdout, stderr, held, child, child_open,
                   exit_code>>
    /\ UNCHANGED <<cfgVars, becomeVars, connVars, error, opVars>>

\* the ControlMaster writes one chunk to a pipe it holds
master_write(s) ==
    /\ p_pc \notin {"idle", "returned", "raised"}
    /\ s \in held
    /\ budget > 0
    /\ budget' = budget - 1
    /\ pipe' = [pipe EXCEPT ![s] = Append(@, "output")]
    /\ UNCHANGED <<p_pc, rpipes, ready, stdout, stderr, held, child, child_open,
                   exit_code>>
    /\ UNCHANGED <<cfgVars, becomeVars, connVars, error, opVars>>

\* the child closes its end of a pipe and runs on
child_close(s) ==
    /\ p_pc \notin {"idle", "returned", "raised"}
    /\ child = "running"
    /\ s \in child_open
    /\ child_open' = child_open \ {s}
    /\ UNCHANGED <<p_pc, rpipes, ready, stdout, stderr, pipe, held, child, exit_code,
                   budget>>
    /\ UNCHANGED <<cfgVars, becomeVars, connVars, error, opVars>>

\* the exit codes the child of a pump run ends with: success and a failure
PumpExitCodes == {0, 255}

\* the child exits with code rc
child_exit(rc) ==
    /\ p_pc \notin {"idle", "returned", "raised"}
    /\ child = "running"
    /\ child' = "exited"
    /\ child_open' = {}
    /\ exit_code' = rc
    /\ UNCHANGED <<p_pc, rpipes, ready, stdout, stderr, pipe, held, budget>>
    /\ UNCHANGED <<cfgVars, becomeVars, connVars, error, opVars>>

\* lines 231-239: the locals are set and indata, if any, is written;
\* `written` says whether stdin.write and stdin.close succeed
pump_start(written) ==
    /\ p_pc = "start"
    /\ IF in_data /\ ~written
       THEN /\ p_pc' = "raised"
            /\ error' = "SSH Error: data could not be sent to the remote host"
       ELSE /\ p_pc' = "select"
            /\ error' = error
    /\ rpipes' = Streams
    /\ stdout' = <<>>
    /\ stderr' = <<>>
    /\ UNCHANGED <<ready, pipe, held, child, child_open, exit_code, budget>>
    /\ UNCHANGED <<cfgVars, becomeVars, connVars, opVars>>

\* line 242: select returns the readable streams of rpipes, or none after
\* its timeout of one second
pump_select ==
    /\ p_pc = "select"
    /\ ready' = {s \in rpipes : Readable(s)}
    /\ p_pc' = "read"
    /\ UNCHANGED <<rpipes, stdout, stderr, pipe, held, child, child_open, exit_code,
                   budget>>
    /\ UNCHANGED <<cfgVars, becomeVars, connVars, error, opVars>>

\* lines 245-249: the error the escalation checks raise, "" if none
BecomeError ==
    IF _play_context.become /\ sudoable
    THEN IF _play_context.become_pass # ""
         THEN IF check_incorrect_password(stdout)
              THEN "Incorrect become password" ELSE ""
         ELSE IF check_password_prompt(stdout)
              THEN "Missing become password" ELSE ""
    ELSE ""

\* lines 245-260: the escalation checks, then one os.read from stderr, or
\* else from stdout; an empty read takes the stream out of rpipes
pump_read ==
    /\ p_pc = "read"
    /\ IF BecomeError # ""
       THEN /\ p_pc' = "raised"
            /\ error' = BecomeError
            /\ UNCHANGED <<rpipes, stdout, stderr, pipe>>
       ELSE /\ p_pc' = "poll"
            /\ error' = error
            /\ IF "stderr" \in ready
               THEN /\ stderr' = stderr \o pipe["stderr"]
                    /\ pipe' = [pipe EXCEPT !["stderr"] = <<>>]
                    /\ rpipes' = IF pipe["stderr"] = <<>>
                                 THEN rpipes \ {"stderr"} ELSE rpipes
                    /\ UNCHANGED stdout
               ELSE IF "stdout" \in ready
               THEN /\ stdout' = stdout \o pipe["stdout"]
                    /\ pipe' = [pipe EXCEPT !["stdout"] = <<>>]
                    /\ rpipes' = IF pipe["stdout"] = <<>>
                                 THEN rpipes \ {"stdout"} ELSE rpipes
                    /\ UNCHANGED stderr
               ELSE UNCHANGED <<rpipes, stdout, stderr, pipe>>
    /\ UNCHANGED <<ready, held, child, child_open, exit_code, budget>>
    /\ UNCHANGED <<cfgVars, becomeVars, connVars, opVars>>

\* line 265 with `not rfd` left out: the loop ends only at EOF of both pipes
LoopMayEnd_at_eof_only == rpipes = {}

\* line 265: not rpipes or not rfd
LoopMayEnd == rpipes = {} \/ ready = {}

\* line 265: the loop ends when LoopMayEnd and the child has exited; p.poll()
\* reaps an exited child and sets p.returncode
pump_poll ==
    /\ p_pc = "poll"
    /\ IF LoopMayEnd /\ Exited
       THEN /\ p_pc' = "close"
            /\ child' = "reaped"
            /\ child_rc' = exit_code
       ELSE /\ p_pc' = IF rpipes = {} THEN "poll_again" ELSE "select"
            /\ UNCHANGED <<child, child_rc>>
    /\ UNCHANGED <<rpipes, ready, stdout, stderr, pipe, held, child_open, exit_code,
                   budget>>
    /\ UNCHANGED <<op, pc, in_data, sudoable, result, retryVars>>
    /\ UNCHANGED <<sshpass, rfd, wfd, pipes, open_fds, children, comm, events>>
    /\ UNCHANGED <<cfgVars, becomeVars, connVars, error>>

\* line 270: with rpipes empty, p.poll() == None leads to p.wait(); a child
\* that exited since line 265 is reaped and the loop goes round again
pump_poll_again ==
    /\ p_pc = "poll_again"
    /\ IF Exited
       THEN /\ p_pc' = "select"
            /\ child' = "reaped"
            /\ child_rc' = exit_code
       ELSE /\ p_pc' = "wait"
            /\ UNCHANGED <<child, child_rc>>
    /\ UNCHANGED <<rpipes, ready, stdout, stderr, pipe, held, child_open, exit_code,
                   budget>>
    /\ UNCHANGED <<op, pc, in_data, sudoable, result, retryVars>>
    /\ UNCHANGED <<sshpass, rfd, wfd, pipes, open_fds, children, comm, events>>
    /\ UNCHANGED <<cfgVars, becomeVars, connVars, error>>

\* lines 271-274: p.wait() returns once the child has exited
pump_wait ==
    /\ p_pc = "wait"
    /\ Exited
    /\ p_pc' = "close"
    /\ child' = "reaped"
    /\ child_rc' = exit_code
    /\ UNCHANGED <<rpipes, ready, stdout, stderr, pipe, held, child_open, exit_code,
                   budget>>
    /\ UNCHANGED <<op, pc, in_data, sudoable, result, retryVars>>
    /\ UNCHANGED <<sshpass, rfd, wfd, pipes, open_fds, children, comm, events>>
    /\ UNCHANGED <<cfgVars, becomeVars, connVars, error>>

\* lines 277-278: stdin is closed and (p.returncode, stdout, stderr) returned
pump_return ==
    /\ p_pc = "close"
    /\ p_pc' = "returned"
    /\ UNCHANGED <<rpipes, ready, stdout, stderr, pipe, held, child, child_open,
                   exit_code, budget>>
    /\ UNCHANGED <<cfgVars, becomeVars, connVars, error, opVars>>

\* the PlayContext fields _communicate reads
PumpContexts ==
    { c \in [port : {"None"},
             private_key_file : {""},
             password : {""},
             remote_user : {""},
             timeout : {10},
             ssh_extra_args : {<<>>},
             prompt : {""},
             become : BOOLEAN,
             become_pass : {"", "hunter2"}] :
        ~c.become => c.become_pass = "" }

\* _exec_command or put_file has spawned its child and calls _communicate
InitPump ==
    /\ C = [ANSIBLE_SSH_ARGS |-> <<>>, HOST_KEY_CHECKING |-> TRUE,
            ANSIBLE_SSH_RETRIES |-> 0, DEFAULT_SCP_IF_SSH |-> FALSE]
    /\ _play_context \in PumpContexts
    /\ ssh_extra_args = <<>>
    /\ ssh_args = <<>>
    /\ _common_args = FreshArgs
    /\ _connected = TRUE
    /\ _cp_dir = CpDir
    /\ overrides_read = FALSE
    /\ connects = 1
    /\ closed = FALSE
    /\ cp_check = "ok"
    /\ error = ""
    /\ op = "exec_command"
    /\ pc = "communicate"
    /\ in_data \in BOOLEAN
    /\ sudoable = TRUE
    /\ result = NoTuple
    /\ attempt = 0
    /\ calls = 1
    /\ pauses = <<>>
    /\ return_tuple = NoTuple
    /\ exc = ""
    /\ all255 = TRUE
    /\ sshpass = FALSE
    /\ rfd = 0
    /\ wfd = 0
    /\ pipes = 0
    /\ open_fds = {}
    /\ children = 1
    /\ child_rc = None
    /\ comm = NoTuple
    /\ events = <<"spawn">>
    /\ p_pc = "start"
    /\ rpipes = {}
    /\ ready = {}
    /\ stdout = <<>>
    /\ stderr = <<>>
    /\ pipe = [s \in Streams |-> <<>>]
    /\ held \in SUBSET Streams
    /\ child = "running"
    /\ child_open = Streams
    /\ exit_code = None
    /\ budget = MaxChunks
    /\ BecomeIdle

\* the statements of _communicate
PumpStep ==
    \/ \E written \in BOOLEAN : pump_start(written)
    \/ pump_select
    \/ pump_read
    \/ pump_poll
    \/ pump_poll_again
    \/ pump_wait
    \/ pump_return

ChildExits == \E rc \in PumpExitCodes : child_exit(rc)

NextPump ==
    \/ PumpStep
    \/ \E s \in Streams, c \in Chunks : child_write(s, c)
    \/ \E s \in Streams : child_close(s)
    \/ \E s \in Streams : master_write(s)
    \/ ChildExits

\* _communicate keeps running (every call it makes returns: select within
\* its timeout, os.read on a stream select reported, p.poll at once), and
\* the child exits in the end
SpecPump ==
    InitPump /\ [][NextPump]_vars /\ WF_vars(PumpStep) /\ WF_vars(ChildExits)

----------------------------------------------------------------------------
(* fetch_file from line 511 on: Popen.communicate beside the same child    *)
(* and ControlMaster.  communicate reads stdout and stderr until each is   *)
(* at end of file, then waits for the child.                               *)

\* line 511: communicate reads what stream s holds, or finds it at end of
\* file and stops reading it
Popen_communicate_read(s) ==
    /\ pc = "Popen_communicate"
    /\ s \in rpipes
    /\ Readable(s)
    /\ IF pipe[s] # <<>>
       THEN /\ stdout' = IF s = "stdout" THEN stdout \o pipe[s] ELSE stdout
            /\ stderr' = IF s = "stderr" THEN stderr \o pipe[s] ELSE stderr
            /\ pipe' = [pipe EXCEPT ![s] = <<>>]
            /\ UNCHANGED rpipes
       ELSE /\ rpipes' = rpipes \ {s}
            /\ UNCHANGED <<stdout, stderr, pipe>>
    /\ UNCHANGED <<p_pc, ready, held, child, child_open, exit_code, budget>>
    /\ UNCHANGED <<cfgVars, becomeVars, connVars, error, opVars>>

\* line 511: with both streams at end of file communicate waits for the
\* child and returns; p.returncode is set
Popen_communicate_wait ==
    /\ pc = "Popen_communicate"
    /\ rpipes = {}
    /\ Exited
    /\ child' = "reaped"
    /\ child_rc' = exit_code
    /\ comm' = [rc |-> exit_code, stdout |-> children, stderr |-> FALSE]
    /\ events' = IF in_data THEN events \o <<"stdin_write", "read">>
                            ELSE Append(events, "read")
    /\ pc' = "transfer_end"
    /\ p_pc' = "returned"
    /\ UNCHANGED <<rpipes, ready, stdout, stderr, pipe, held, child_open, exit_code,
                   budget>>
    /\ UNCHANGED <<op, in_data, sudoable, result, retryVars>>
    /\ UNCHANGED <<sshpass, rfd, wfd, pipes, open_fds, children>>
    /\ UNCHANGED <<cfgVars, becomeVars, connVars, error>>

\* fetch_file has spawned its child (line 509) and calls p.communicate
InitFetch ==
    /\ C \in [ANSIBLE_SSH_ARGS : {<<>>}, HOST_KEY_CHECKING : {TRUE},
               ANSIBLE_SSH_RETRIES : {0}, DEFAULT_SCP_IF_SSH : BOOLEAN]
    /\ _play_context \in PumpContexts
    /\ ~_play_context.become
    /\ ssh_extra_args = <<>>
    /\ ssh_args = <<>>
    /\ _common_args = FreshArgs
    /\ _connected = TRUE
    /\ _cp_dir = CpDir
    /\ overrides_read = FALSE
    /\ connects = 1
    /\ closed = FALSE
    /\ cp_check = "ok"
    /\ error = ""
    /\ op = "fetch_file"
    /\ pc = "Popen_communicate"
    /\ in_data = ~C.DEFAULT_SCP_IF_SSH
    /\ sudoable = TRUE
    /\ result = NoTuple
    /\ attempt = 0
    /\ calls = 0
    /\ pauses = <<>>
    /\ return_tuple = NoTuple
    /\ exc = ""
    /\ all255 = TRUE
    /\ sshpass = FALSE
    /\ rfd = 0
    /\ wfd = 0
    /\ pipes = 0
    /\ open_fds = {}
    /\ children = 1
    /\ child_rc = None
    /\ comm = NoTuple
    /\ events = <<"spawn">>
    /\ p_pc = "Popen_communicate"
    /\ rpipes = Streams
    /\ ready = {}
    /\ stdout = <<>>
    /\ stderr = <<>>
    /\ pipe = [s \in Streams |-> <<>>]
    /\ held \in SUBSET Streams
    /\ child = "running"
    /\ child_open = Streams
    /\ exit_code = None
    /\ budget = MaxChunks
    /\ BecomeIdle

\* the steps of fetch_file from line 511 to its end
FetchStep ==
    \/ \E s \in Streams : Popen_communicate_read(s)
    \/ Popen_communicate_wait
    \/ transfer_end

NextFetch ==
    \/ FetchStep
    \/ \E s \in Streams, c \in Chunks : child_write(s, c)
    \/ \E s \in Streams : child_close(s)
    \/ \E s \in Streams : master_write(s)
    \/ ChildExits

\* communicate and fetch_file keep running while they can, and the child
\* exits in the end
SpecFetch ==
    InitFetch /\ [][NextFetch]_vars /\ WF_vars(FetchStep) /\ WF_vars(ChildExits)

----------------------------------------------------------------------------
(* One attempt of _exec_command with a prompt, from line 370 on: the       *)
(* escalation handshake of lines 385-427 statement by statement, then      *)
(* _communicate as above and the return of line 447, beside the child.     *)

\* what a chunk of the child's output shows to the escalation predicates
BecomeChunks == {"output", "prompt", "success", "incorrect"}

\* ConnectionBase.check_become_success, a predicate over the buffer
check_become_success(buf) == InBuf(buf, "success")

\* lines 391-397 with the test for the prompt before the test for success
handshake_check_prompt_first ==
    /\ h_pc = "check"
    /\ IF check_password_prompt(become_output) \/ check_password_prompt(become_errput)
       THEN h_pc' = "end" /\ passprompt' = TRUE
       ELSE IF check_become_success(become_output \o become_errput)
       THEN h_pc' = "end" /\ UNCHANGED passprompt
       ELSE h_pc' = "select" /\ UNCHANGED passprompt
    /\ UNCHANGED <<become_output, become_errput, chunk, no_prompt_out, no_prompt_err,
                   stdin_writes, exc_output, exec_result>>
    /\ UNCHANGED <<cfgVars, connVars, error, opVars, pumpVars>>

\* lines 391-397: the loop ends on the success marker, or on a prompt
handshake_check ==
    /\ h_pc = "check"
    /\ IF check_become_success(become_output \o become_errput)
       THEN h_pc' = "end" /\ UNCHANGED passprompt
       ELSE IF check_password_prompt(become_output) \/ check_password_prompt(become_errput)
       THEN h_pc' = "end" /\ passprompt' = TRUE
       ELSE h_pc' = "select" /\ UNCHANGED passprompt
    /\ UNCHANGED <<become_output, become_errput, chunk, no_prompt_out, no_prompt_err,
                   stdin_writes, exc_output, exec_result>>
    /\ UNCHANGED <<cfgVars, connVars, error, opVars, pumpVars>>

\* line 400 without the test of lines 401-404: a select that timed out goes
\* on to the reads of lines 406-415
handshake_select_falls_through ==
    /\ h_pc = "select"
    /\ ready' = {s \in Streams : Readable(s)}
    /\ h_pc' = "read"
    /\ UNCHANGED <<become_output, become_errput, passprompt, chunk, no_prompt_out,
                   no_prompt_err, stdin_writes, exc_output, exec_result>>
    /\ UNCHANGED <<p_pc, rpipes, stdout, stderr, pipe, held, child, child_open,
                   exit_code, budget>>
    /\ UNCHANGED <<cfgVars, connVars, error, opVars>>

\* lines 400-401: select returns the readable streams, or none after
\* PlayContext.timeout
handshake_select ==
    /\ h_pc = "select"
    /\ ready' = {s \in Streams : Readable(s)}
    /\ h_pc' = IF ready' = {} THEN "drain" ELSE "read"
    /\ UNCHANGED <<become_output, become_errput, passprompt, chunk, no_prompt_out,
                   no_prompt_err, stdin_writes, exc_output, exec_result>>
    /\ UNCHANGED <<p_pc, rpipes, stdout, stderr, pipe, held, child, child_open,
                   exit_code, budget>>
    /\ UNCHANGED <<cfgVars, connVars, error, opVars>>

\* lines 403-404: p.communicate() returns once stdout and stderr are at end
\* of file and the child has exited; then the error is raised with
\* become_output in its message
handshake_drain ==
    /\ h_pc = "drain"
    /\ \A s \in Streams : WriteEndClosed(s)
    /\ Exited
    /\ child' = "reaped"
    /\ child_rc' = exit_code
    /\ pipe' = [s \in Streams |-> <<>>]
    /\ h_pc' = "raised"
    /\ exc_output' = become_output
    /\ Raise("Connection error waiting for privilege escalation password prompt")
    /\ UNCHANGED <<become_output, become_errput, passprompt, chunk, no_prompt_out,
                   no_prompt_err, stdin_writes, exec_result>>
    /\ UNCHANGED <<p_pc, rpipes, ready, stdout, stderr, held, child_open, exit_code,
                   budget>>
    /\ UNCHANGED <<op, in_data, sudoable, result, attempt, calls, return_tuple>>
    /\ UNCHANGED <<sshpass, rfd, wfd, pipes, open_fds, children, comm, events>>
    /\ UNCHANGED <<cfgVars, connVars>>

\* lines 406-419: one read from stderr, or else from stdout, of all that the
\* stream holds ('' at end of file); check_incorrect_password on stderr; an
\* empty chunk ends the loop
handshake_read ==
    /\ h_pc = "read"
    /\ LET s == IF "stderr" \in ready THEN "stderr"
                ELSE IF "stdout" \in ready THEN "stdout" ELSE "none"
           data == IF s = "none" THEN chunk ELSE pipe[s]
           errput == IF s = "stderr" THEN become_errput \o data ELSE become_errput
       IN  /\ chunk' = data
           /\ become_errput' = errput
           /\ become_output' = IF s = "stdout" THEN become_output \o data
                                               ELSE become_output
           /\ pipe' = IF s = "none" THEN pipe ELSE [pipe EXCEPT ![s] = <<>>]
           /\ IF s = "stderr" /\ check_incorrect_password(errput)
              THEN /\ h_pc' = "raised"
                   /\ Raise("Incorrect become password")
              ELSE /\ h_pc' = IF data = <<>> THEN "end" ELSE "check"
                   /\ UNCHANGED <<pc, exc, pauses, all255, error>>
    /\ UNCHANGED <<passprompt, no_prompt_out, no_prompt_err, stdin_writes, exc_output,
                   exec_result>>
    /\ UNCHANGED <<p_pc, rpipes, ready, stdout, stderr, held, child, child_open,
                   exit_code, budget>>
    /\ UNCHANGED <<op, in_data, sudoable, result, attempt, calls, return_tuple>>
    /\ UNCHANGED <<procVars, cfgVars, connVars>>

\* lines 422-427 with the accumulated output kept in both branches
handshake_end_keeps_output ==
    /\ h_pc = "end"
    /\ stdin_writes' = IF passprompt THEN stdin_writes + 1 ELSE stdin_writes
    /\ events' = IF passprompt THEN events \o <<"read", "stdin_write">>
                               ELSE Append(events, "read")
    /\ no_prompt_out' = become_output
    /\ no_prompt_err' = become_errput
    /\ h_pc' = "done"
    /\ pc' = "communicate"
    /\ p_pc' = "start"
    /\ UNCHANGED <<become_output, become_errput, passprompt, chunk, exc_output,
                   exec_result>>
    /\ UNCHANGED <<rpipes, ready, stdout, stderr, pipe, held, child, child_open,
                   exit_code, budget>>
    /\ UNCHANGED <<op, in_data, sudoable, result, retryVars>>
    /\ UNCHANGED <<sshpass, rfd, wfd, pipes, open_fds, children, child_rc, comm>>
    /\ UNCHANGED <<cfgVars, connVars, error>>

\* lines 422-430: after the loop the become password is written to stdin if
\* a prompt was found, else the accumulated output is kept for the result;
\* then _communicate is called
handshake_end ==
    /\ h_pc = "end"
    /\ IF passprompt
       THEN /\ stdin_writes' = stdin_writes + 1
            /\ events' = events \o <<"read", "stdin_write">>
            /\ UNCHANGED <<no_prompt_out, no_prompt_err>>
       ELSE /\ no_prompt_out' = become_output
            /\ no_prompt_err' = become_errput
            /\ events' = Append(events, "read")
            /\ UNCHANGED stdin_writes
    /\ h_pc' = "done"
    /\ pc' = "communicate"
    /\ p_pc' = "start"
    /\ UNCHANGED <<become_output, become_errput, passprompt, chunk, exc_output,
                   exec_result>>
    /\ UNCHANGED <<rpipes, ready, stdout, stderr, pipe, held, child, child_open,
                   exit_code, budget>>
    /\ UNCHANGED <<op, in_data, sudoable, result, retryVars>>
    /\ UNCHANGED <<sshpass, rfd, wfd, pipes, open_fds, children, child_rc, comm>>
    /\ UNCHANGED <<cfgVars, connVars, error>>

\* lines 430-447: _communicate has returned; _exec_command raises on the
\* exit code or returns (p.returncode, '', no_prompt_out + stdout,
\* no_prompt_err + stderr)
exec_return ==
    /\ pc = "communicate"
    /\ h_pc = "done"
    /\ p_pc = "returned"
    /\ IF ExecError # ""
       THEN /\ Raise(ExecError)
            /\ UNCHANGED <<exec_result, result, return_tuple, comm>>
       ELSE /\ exec_result' = [rc |-> child_rc,
                               stdout |-> no_prompt_out \o stdout,
                               stderr |-> no_prompt_err \o stderr]
            /\ comm' = [rc |-> child_rc, stdout |-> children, stderr |-> FALSE]
            /\ return_tuple' = comm'
            /\ result' = comm'
            /\ pc' = "done"
            /\ UNCHANGED <<exc, pauses, all255, error>>
    /\ UNCHANGED <<h_pc, become_output, become_errput, passprompt, chunk,
                   no_prompt_out, no_prompt_err, stdin_writes, exc_output>>
    /\ UNCHANGED <<op, in_data, sudoable, attempt, calls>>
    /\ UNCHANGED <<sshpass, rfd, wfd, pipes, open_fds, children, child_rc, events>>
    /\ UNCHANGED <<cfgVars, connVars, pumpVars>>

\* _exec_command of a task with become, a prompt and a become password has
\* spawned its child (line 363) and enters the handshake
InitBecome ==
    /\ C = [ANSIBLE_SSH_ARGS |-> <<>>, HOST_KEY_CHECKING |-> TRUE,
            ANSIBLE_SSH_RETRIES |-> 0, DEFAULT_SCP_IF_SSH |-> FALSE]
    /\ _play_context \in {c \in OpContexts : /\ c.become
                                            /\ c.prompt # ""
                                            /\ c.become_pass # ""
                                            /\ c.password = ""}
    /\ ssh_extra_args = <<>>
    /\ ssh_args = <<>>
    /\ _common_args = FreshArgs
    /\ _connected = TRUE
    /\ _cp_dir = CpDir
    /\ overrides_read = FALSE
    /\ connects = 1
    /\ closed = FALSE
    /\ cp_check = "ok"
    /\ error = ""
    /\ op = "exec_command"
    /\ pc = "handshake"
    /\ in_data = FALSE
    /\ sudoable = TRUE
    /\ result = NoTuple
    /\ attempt = 0
    /\ calls = 1
    /\ pauses = <<>>
    /\ return_tuple = NoTuple
    /\ exc = ""
    /\ all255 = TRUE
    /\ sshpass = FALSE
    /\ rfd = 0
    /\ wfd = 0
    /\ pipes = 0
    /\ open_fds = {}
    /\ children = 1
    /\ child_rc = None
    /\ comm = NoTuple
    /\ events = <<"spawn">>
    /\ p_pc = "handshake"
    /\ rpipes = {}
    /\ ready = {}
    /\ stdout = <<>>
    /\ stderr = <<>>
    /\ pipe = [s \in Streams |-> <<>>]
    /\ held = {}
    /\ child = "running"
    /\ child_open = Streams
    /\ exit_code = None
    /\ budget = MaxBecomeChunks
    /\ h_pc = "check"
    /\ become_output = <<>>
    /\ become_errput = <<>>
    /\ passprompt = FALSE
    /\ chunk = Unbound
    /\ no_prompt_out = <<>>
    /\ no_prompt_err = <<>>
    /\ stdin_writes = 0
    /\ exc_output = <<>>
    /\ exec_result = NoResult

\* the statements of the handshake
HandshakeStep ==
    \/ handshake_check
    \/ handshake_select
    \/ handshake_read
    \/ handshake_drain
    \/ handshake_end

\* the statements of the attempt
BecomeStep ==
    \/ HandshakeStep
    \/ PumpStep
    \/ exec_return

NextBecome ==
    \/ BecomeStep
    \/ \E s \in Streams, c \in BecomeChunks : child_write(s, c)
    \/ \E s \in Streams : child_close(s)
    \/ ChildExits

\* the attempt keeps running while a statement of it can run: select
\* returns within its timeout and a read of a reported stream returns; of
\* the child nothing is assumed, it may run for ever
SpecBecome == InitBecome /\ [][NextBecome]_vars /\ WF_vars(BecomeStep)

----------------------------------------------------------------------------
(* Properties of _connect and close, under SpecConnect *)

InArgs(arg) == \E i \in 1..Len(_common_args) : _common_args[i] = arg

\* _common_args without the extra args the last successful _connect appended
BeforeExtraArgs == SubSeq(_common_args, 1, Len(_common_args) - Len(ExtraArgs))

\* C8 as stated: after a successful _connect, _common_args holds a
\* ControlPath option iff it holds a ControlPersist option, except that a
\* ControlPath of the user's may stand without ControlPersist.
C8_ControlPathIffControlPersist ==
    _connected =>
        /\ cp_in_use(_common_args) => cp_path_set(_common_args)
        /\ InArgs(ControlPathArg) => cp_in_use(_common_args)

\* C8 amended: after a successful _connect, the ControlPath _connect adds
\* stands only beside a ControlPersist option, and a ControlPersist option
\* among the arguments before the extra args always has a ControlPath; a
\* ControlPersist without any ControlPath comes from the extra args alone.
C8_ControlPathForBaseArgs ==
    _connected =>
        /\ InArgs(ControlPathArg) => cp_in_use(_common_args)
        /\ cp_in_use(BeforeExtraArgs) => cp_path_set(_common_args)
        /\ (cp_in_use(_common_args) /\ ~cp_path_set(_common_args))
              => cp_in_use(ExtraArgs)

C8_Witness ==
    /\ _connected
    /\ cp_in_use(ExtraArgs)
    /\ cp_in_use(BaseArgs)
    /\ InArgs(ControlPathArg)

\* C9: whenever the Connection is connected with the ControlPath of _connect
\* in _common_args, the _connect call that set _connected created the
\* directory and found it writable.
C9_ControlPathDirChecked ==
    (_connected /\ InArgs(ControlPathArg)) => cp_check = "ok"

\* C10: after _connect, close and _connect again, _common_args is what one
\* _connect composes on a new Connection.
C10_CommonArgsReset ==
    (_connected /\ closed) => _common_args = FreshArgs

Has(args, arg) == \E i \in 1..Len(args) : args[i] = arg

\* the base args C12 names: the host's ansible_ssh_args when set, else the
\* global value, else the default
C12_Base ==
    IF ssh_args # <<>> THEN _split_args(ssh_args)
    ELSE IF C.ANSIBLE_SSH_ARGS # <<>> THEN _split_args(C.ANSIBLE_SSH_ARGS)
    ELSE <<"-o", "ControlMaster=auto", "-o", "ControlPersist=60s">>

\* the extra args C12 names: those of the PlayContext when set, else the
\* host's ansible_ssh_extra_args
C12_Extra ==
    IF _play_context.ssh_extra_args # <<>>
    THEN _split_args(_play_context.ssh_extra_args)
    ELSE _split_args(ssh_extra_args)

\* C12: the first _connect on a new Connection leaves in _common_args, in
\* this order, the base args, the ControlPath fix-up, StrictHostKeyChecking,
\* Port, IdentityFile, the auth restriction, User, ConnectTimeout and the
\* extra args, each under its condition; with ansible_ssh_args set for the
\* host, no option of the global ANSIBLE_SSH_ARGS gets in.
C12_CompositionOrder ==
    (_connected /\ connects = 1) =>
        /\ _common_args =
              C12_Base
              \o (IF cp_in_use(C12_Base) /\ ~cp_path_set(C12_Base)
                  THEN <<"-o", ControlPathArg>> ELSE <<>>)
              \o HostKeyArgs \o PortArgs \o IdentityArgs \o AuthArgs \o UserArgs
              \o TimeoutArgs
              \o C12_Extra
        /\ (ssh_args # <<>> /\ C.ANSIBLE_SSH_ARGS # <<>>) =>
              \A i \in 1..Len(C.ANSIBLE_SSH_ARGS) :
                  (C.ANSIBLE_SSH_ARGS[i] # "-o"
                      /\ Has(_common_args, C.ANSIBLE_SSH_ARGS[i])) =>
                      \/ Has(_split_args(ssh_args), C.ANSIBLE_SSH_ARGS[i])
                      \/ Has(C12_Extra, C.ANSIBLE_SSH_ARGS[i])

C12_Witness ==
    /\ _connected
    /\ connects = 1
    /\ ssh_args = <<"-o", "ControlPersist=30s">>
    /\ C.ANSIBLE_SSH_ARGS = <<"-o", "ForwardAgent=yes">>
    /\ _play_context.ssh_extra_args = <<"-o", "ControlPath=/u/cp", " ">>
    /\ ssh_extra_args = <<"-o", "ControlPersist=30s">>
    /\ ~C.HOST_KEY_CHECKING
    /\ _play_context.port # "None"
    /\ _play_context.password = ""
    /\ _play_context.remote_user = "deploy"
    /\ Len(_common_args) = 22

----------------------------------------------------------------------------
(* Properties of exec_command, put_file and fetch_file, under Spec *)

Returned == pc = "done" /\ error = ""

\* C1: one call of exec_command invokes _exec_command at most
\* ANSIBLE_SSH_RETRIES + 1 times, and exactly that often when every attempt
\* returned exit code 255; it then returns the tuple of the last attempt.
C1_RetryCount ==
    op = "exec_command" =>
        /\ calls <= C.ANSIBLE_SSH_RETRIES + 1
        /\ (pc = "done" /\ all255) =>
              /\ calls = C.ANSIBLE_SSH_RETRIES + 1
              /\ error = ""
              /\ result = comm
              /\ result.rc = 255
              /\ result.stdout = children

C1_Witness ==
    /\ op = "exec_command"
    /\ pc = "done"
    /\ all255
    /\ calls = 3
    /\ result.stdout = 3

\* C2: exec_command returns exit code 255 only from the final attempt, and
\* a tuple with another exit code is returned as it is, at once: no further
\* attempt and no pause follow it.
C2_Returns255OnlyAtLast ==
    op = "exec_command" =>
        /\ (Returned /\ result.rc = 255) =>
              (attempt = C.ANSIBLE_SSH_RETRIES /\ calls = C.ANSIBLE_SSH_RETRIES + 1)
        /\ (return_tuple.rc # None /\ return_tuple.rc # 255) =>
              /\ Returned
              /\ result = return_tuple
              /\ result.stdout = children
              /\ calls = attempt + 1
              /\ Len(pauses) = attempt

C2_Witness ==
    /\ op = "exec_command"
    /\ Returned
    /\ result.rc = 1
    /\ attempt = 1
    /\ C.ANSIBLE_SSH_RETRIES = 2

\* C3 as stated: a configuration or escalation-password error raised by an
\* attempt leaves exec_command at once, with no pause and no further attempt.
C3_FatalNeverRetried ==
    (op = "exec_command" /\ exc \in FatalErrors) =>
        (pc = "done" /\ error = exc /\ Len(pauses) = attempt)

\* C3 amended: such an error leaves exec_command at once only when the
\* attempt is the last; when attempts remain exec_command catches it, sleeps
\* the backoff pause and goes on to the next attempt.
C3_FatalRetriedLikeAnyError ==
    (op = "exec_command" /\ exc \in FatalErrors) =>
        IF attempt = C.ANSIBLE_SSH_RETRIES
        THEN pc = "done" /\ error = exc /\ Len(pauses) = attempt
        ELSE pc = "sleep" /\ error = "" /\ Len(pauses) = attempt + 1

C3_Witness ==
    /\ op = "exec_command"
    /\ exc = "you must install the sshpass program"
    /\ pc = "sleep"
    /\ attempt = 0

\* the two cases in which _exec_command raises on an exit code the pump
\* returned (lines 436-441)
RaisedOnExitCode ==
    \/ C.HOST_KEY_CHECKING /\ sshpass /\ comm.rc = 6
    \/ comm.stderr

\* C4 as stated: an exit code in 1..254 is returned as data by the attempt
\* and by exec_command, never raised and never retried.
C4_ExitCodeReturnedAsData ==
    (op = "exec_command" /\ comm.rc \in 1..254 /\ pc # "exec_end") =>
        (Returned /\ result = comm /\ calls = attempt + 1)

\* C4 amended: an exit code in 1..254 that _communicate returned is returned
\* as data, at once, except for code 6 under sshpass with host-key checking
\* and for a ControlPersist complaint on stderr: then _exec_command raises,
\* and exec_command retries while attempts remain.
C4_ExitCodeReturnedUnlessConfigError ==
    (op = "exec_command" /\ comm.rc \in 1..254 /\ pc # "exec_end") =>
        IF RaisedOnExitCode
        THEN /\ exc \in FatalErrors
             /\ IF attempt = C.ANSIBLE_SSH_RETRIES
                THEN pc = "done" /\ error = exc
                ELSE pc = "sleep"
        ELSE Returned /\ result = comm /\ calls = attempt + 1

C4_Witness ==
    /\ op = "exec_command"
    /\ in_data
    /\ sshpass
    /\ comm.rc = 254
    /\ Returned
    /\ result.rc = 254

\* C6: when exec_command, put_file or fetch_file has finished, the parent
\* holds no end of a pipe made by _password_cmd.
C6_PasswordFdsClosed ==
    pc = "done" => open_fds = {}

\* the order C7 names
PasswordOrder == <<"spawn", "close_rfd", "write_password", "close_wfd">>

\* C7: with a password, each attempt spawns the child, closes the read end,
\* writes the password, closes the write end, and only then writes to the
\* child's stdin or reads its output.
C7_PasswordBeforeIO ==
    _play_context.password # "" =>
        \A i \in 1..Len(events) :
            IF i <= 4 THEN events[i] = PasswordOrder[i]
            ELSE events[i] \in {"stdin_write", "read"}

C7_Witness ==
    /\ _play_context.password # ""
    /\ pc = "done"
    /\ Len(events) >= 6
    /\ events[5] = "stdin_write"

\* the pause C21 names for the failure of attempt k
Backoff(k) == IF 2 ^ k - 1 < 30 THEN 2 ^ k - 1 ELSE 30

\* the first pauses as C21 lists them
BackoffList == <<0, 1, 3, 7, 15, 30, 30, 30, 30>>

\* C21: the pause slept after the failure of attempt k is min(2^k - 1, 30),
\* that is 0, 1, 3, 7, 15, 30, 30, ...; there is exactly one pause between
\* two consecutive attempts and none after the final attempt.
C21_BackoffPauses ==
    op = "exec_command" =>
        /\ \A i \in 1..Len(pauses) :
              /\ pauses[i] = Backoff(i - 1)
              /\ i <= Len(BackoffList) => pauses[i] = BackoffList[i]
        /\ calls = attempt + 1
        /\ Len(pauses) = IF pc = "sleep" THEN attempt + 1 ELSE attempt
        /\ Len(pauses) <= C.ANSIBLE_SSH_RETRIES
        /\ pc = "done" => Len(pauses) = calls - 1

C21_Witness ==
    /\ op = "exec_command"
    /\ pc = "done"
    /\ pauses = <<0, 1, 3, 7, 15, 30, 30>>
    /\ calls = 8
    /\ error # ""

\* the current attempt or transfer has spawned its child
Spawned == events # <<>> /\ events[1] = "spawn"

\* C13: without a PlayContext.password the composed arguments hold
\* PasswordAuthentication=no and KbdInteractiveAuthentication=no and the argv
\* of the child of exec_command, put_file and fetch_file does not start with
\* sshpass; with a password the arguments hold neither option and the argv
\* starts with sshpass -d<fd>, fd being the read end of the pipe the attempt
\* has just created, both of whose ends are still open at the spawn.
C13_AuthLockdown ==
    /\ [](IF _play_context.password = ""
          THEN /\ Has(_common_args, "PasswordAuthentication=no")
               /\ Has(_common_args, "KbdInteractiveAuthentication=no")
               /\ Spawned => (cmd[1] # "sshpass" /\ cmd[1] \in {"ssh", "scp", "sftp"})
          ELSE /\ ~Has(_common_args, "PasswordAuthentication=no")
               /\ ~Has(_common_args, "KbdInteractiveAuthentication=no")
               /\ Spawned => /\ cmd[1] = "sshpass"
                             /\ cmd[2] = "-d" \o ToString(2 * pipes - 1)
                             /\ cmd[3] \in {"ssh", "scp", "sftp"})
    /\ [][(children' # children /\ _play_context.password # "") =>
              /\ pipes' = pipes
              /\ {2 * pipes - 1, 2 * pipes} \subseteq open_fds
              /\ ~Spawned]_vars

C13_Witness ==
    /\ _play_context.password # ""
    /\ op = "fetch_file"
    /\ Spawned
    /\ pipes = 1
    /\ cmd[2] = "-d1"

\* a token of the form [host]:<path>
BracketedTargets ==
    {"[::1]:" \o x : x \in {in_path, out_path, quote(in_path), quote(out_path)}}

\* the number of tokens of argv that are in the set
CountIn(argv, tokens) == Cardinality({i \in 1..Len(argv) : argv[i] \in tokens})

\* C19 as stated: whatever the configuration, the argv of the child of
\* put_file to ::1 holds exactly one token of the form [::1]:<path>.
C19_OneBracketedTarget ==
    (op = "put_file" /\ Spawned) => CountIn(cmd, BracketedTargets) = 1

\* C19 amended: with scp the argv holds exactly one token [::1]:<quoted
\* out_path>, its last, and no bare [::1]; with sftp it holds exactly one
\* token [::1], its last, and none of the form [::1]:<path>.
C19_BracketedHostOnce ==
    (op = "put_file" /\ Spawned) =>
        IF C.DEFAULT_SCP_IF_SSH
        THEN /\ CountIn(cmd, BracketedTargets) = 1
             /\ CountIn(cmd, {"[::1]"}) = 0
             /\ cmd[Len(cmd)] = "[::1]:'/tmp/my app.conf'"
        ELSE /\ CountIn(cmd, BracketedTargets) = 0
             /\ CountIn(cmd, {"[::1]"}) = 1
             /\ cmd[Len(cmd)] = "[::1]"

C19_Witness ==
    /\ op = "put_file"
    /\ Spawned
    /\ ~C.DEFAULT_SCP_IF_SSH
    /\ sshpass
    /\ pc = "done"
    /\ error = ""

FileNotFound == "file or module does not exist"

\* C18: put_file of a missing local file raises FileNotFound as its first
\* and only step: no child and no sshpass probe was started, no pipe made,
\* and the Connection is as it was; for an existing file, put_file raises the
\* transfer error when the child's exit code is not 0 and returns normally
\* when it is 0.
C18_PutFileErrors ==
    /\ [][(op # "put_file" /\ op' = "put_file") =>
              IF error' = FileNotFound
              THEN pc' = "done" /\ UNCHANGED <<connVars, procVars, retryVars>>
              ELSE pc' = "password_cmd" /\ error' = ""]_vars
    /\ []((op = "put_file" /\ error = FileNotFound) =>
              /\ pc = "done"
              /\ children = 0 /\ pipes = 0 /\ open_fds = {} /\ events = <<>>
              /\ ~sshpass
              /\ _connected /\ _common_args = FreshArgs)
    /\ []((op = "put_file" /\ pc = "done" /\ child_rc # None) =>
              IF child_rc = 0 THEN error = ""
              ELSE error = "failed to transfer file")
    /\ []((op = "put_file" /\ pc = "done" /\ error = "") => child_rc = 0)

C18_Witness ==
    /\ op = "put_file"
    /\ pc = "done"
    /\ error = FileNotFound
    /\ _play_context.password # ""
    /\ ~C.DEFAULT_SCP_IF_SSH

\* C11: while the Connection is connected _common_args does not change: a
\* _connect call returns with _common_args and _connected as they were, and
\* no step of exec_command, put_file or fetch_file, whatever its outcome,
\* touches _common_args.
C11_CommonArgsFrozen ==
    [][_connected =>
          /\ _common_args' = _common_args
          /\ connects' # connects => (_connected' /\ error' = ""
                                         /\ UNCHANGED <<opVars, _cp_dir>>)]_vars

C11_Witness ==
    /\ connects = 3
    /\ op = "exec_command"
    /\ pc = "done"
    /\ calls = 3
    /\ error # ""
    /\ _connected
    /\ _common_args = FreshArgs

----------------------------------------------------------------------------
(* Properties of _communicate, under SpecPump *)

PumpEnded == p_pc \in {"returned", "raised"}

\* C5: once the child has exited and no more output arrives, _communicate
\* ends, also when a ControlMaster keeps stdout or stderr open so that EOF
\* never comes: it returns, unless the write of indata or an escalation check
\* raised; and it returns only after the child has exited.
C5_PumpEnds ==
    /\ <>PumpEnded
    /\ (~_play_context.become /\ ~in_data) => <>(p_pc = "returned")
    /\ [](p_pc = "returned" => (child = "reaped" /\ child_rc = exit_code))

\* C20: when _communicate returns, whatever the child wrote to stdout and
\* stderr before it exited has been read and is in the returned stdout and
\* stderr.  Stated where no ControlMaster holds a pipe, so that every chunk
\* in a pipe is one the child wrote: nothing is left in the pipes, and the
\* two buffers hold as many chunks as were written.
C20_NothingLeftUnread ==
    (p_pc = "returned" /\ held = {}) =>
        /\ pipe["stdout"] = <<>>
        /\ pipe["stderr"] = <<>>
        /\ Len(stdout) + Len(stderr) = MaxChunks - budget

C5_Witness ==
    /\ p_pc = "returned"
    /\ held = Streams
    /\ rpipes = Streams
    /\ Len(stdout) = 2

----------------------------------------------------------------------------
(* Properties of fetch_file, under SpecFetch *)

\* C17: once the child of fetch_file has exited and no more output arrives,
\* fetch_file finishes, by returning or by raising the transfer error, also
\* when a ControlMaster keeps the child's stdout or stderr open.
C17_FetchFileFinishes ==
    Exited ~> (op = "fetch_file" /\ pc = "done")

----------------------------------------------------------------------------
(* Properties of the escalation handshake, under SpecBecome *)

\* the attempt has returned its tuple (line 447)
ExecReturned == pc = "done" /\ error = "" /\ h_pc = "done"

\* _communicate is entered from the end of the handshake only
HandshakeBeforePump ==
    [][(p_pc # "start" /\ p_pc' = "start") => (h_pc = "end" /\ h_pc' = "done")]_vars

TimeoutError == "Connection error waiting for privilege escalation password prompt"

\* C14 as stated: when an attempt with a prompt returns, its stdout is what
\* the handshake accumulated followed by what the pump accumulated, and so
\* is its stderr, however the handshake ended.
C14_HandshakeOutputPrefixed ==
    ExecReturned =>
        /\ exec_result.stdout = become_output \o stdout
        /\ exec_result.stderr = become_errput \o stderr

\* C14 amended: the pump starts only after the handshake; when the handshake
\* ended on the success marker or at end of file, the returned stdout and
\* stderr are the handshake's followed by the pump's, and when it ended on a
\* password prompt they are the pump's alone, the handshake's being dropped.
C14_OutputKeptUnlessPrompt ==
    /\ HandshakeBeforePump
    /\ [](ExecReturned =>
             /\ exec_result.rc = child_rc
             /\ IF passprompt
                THEN /\ exec_result.stdout = stdout
                     /\ exec_result.stderr = stderr
                ELSE /\ exec_result.stdout = become_output \o stdout
                     /\ exec_result.stderr = become_errput \o stderr)

C14_Witness ==
    /\ ExecReturned
    /\ passprompt
    /\ become_output # <<>>
    /\ stdout # <<>>
    /\ exec_result.stdout = stdout

\* C15: in one attempt the become password is written to stdin at most
\* once, and only at the end of a handshake whose loop ended on a password
\* prompt in become_output or become_errput; when the accumulated output
\* holds the success marker, with or without a prompt, or the stream ended
\* first, nothing is written and the output is carried into the result.
C15_PasswordOnlyOnPrompt ==
    /\ [](stdin_writes <= 1)
    /\ [][stdin_writes' # stdin_writes =>
              /\ h_pc = "end" /\ passprompt
              /\ \/ check_password_prompt(become_output)
                 \/ check_password_prompt(become_errput)
              /\ ~check_become_success(become_output \o become_errput)]_vars
    /\ []((h_pc \in {"end", "done"}
               /\ (check_become_success(become_output \o become_errput)
                     \/ chunk = <<>>)) =>
             ~passprompt)
    /\ []((h_pc = "done" /\ ~passprompt) =>
             /\ stdin_writes = 0
             /\ no_prompt_out = become_output
             /\ no_prompt_err = become_errput)
    /\ []((ExecReturned /\ ~passprompt) =>
             /\ exec_result.stdout = become_output \o stdout
             /\ exec_result.stderr = become_errput \o stderr)

C15_Witness ==
    /\ ExecReturned
    /\ check_become_success(become_output)
    /\ check_password_prompt(become_output)
    /\ stdin_writes = 0
    /\ exec_result.stdout = become_output

\* the select of the handshake has returned no stream
TimedOut == h_pc = "drain"

\* C16: after the select of the handshake has timed out, the attempt writes
\* no password, does not enter _communicate and returns no tuple; it ends,
\* whether or not the child is still running, by raising the connection
\* error, which carries become_output.
C16_TimeoutAlwaysRaises ==
    /\ [][TimedOut =>
              /\ h_pc' \in {"drain", "raised"}
              /\ UNCHANGED <<stdin_writes, p_pc, exec_result, become_output>>]_vars
    /\ []((h_pc = "raised" /\ error = TimeoutError) =>
             /\ exc_output = become_output
             /\ stdin_writes = 0
             /\ p_pc = "handshake"
             /\ exec_result = NoResult)
    /\ TimedOut ~> (h_pc = "raised" /\ error = TimeoutError)

----------------------------------------------------------------------------
(* Properties of the children of exec_command, under Spec *)

\* the attempt ended on one of the paths C23 names: a returned tuple, or an
\* error of the handshake, of the pump or of _exec_command after the pump;
\* not the failed write of the ssh password to sshpass (line 222)
EndedAfterPasswordSent == exc # "OSError: write"

\* C23: when an attempt of exec_command that spawned a child has ended, by
\* a returned tuple or by an error raised from the handshake, from the
\* become-password checks of the pump or from the stdin write, the child
\* has exited and has been waited for before exec_command sleeps for the
\* next attempt or finishes; so a Connection never has two un-reaped
\* children of exec_command.
C23_ChildReapedBeforeNextAttempt ==
    (/\ op = "exec_command"
     /\ pc \in {"sleep", "done"}
     /\ Spawned
     /\ EndedAfterPasswordSent) =>
        child_rc # None

----------------------------------------------------------------------------
(* Properties of the handshake loop, under SpecBecome *)

\* the stream lines 406-415 read from when select reported the set r
ReadFrom(r) == IF "stderr" \in r THEN "stderr" ELSE "stdout"

\* C22 as stated: an iteration whose select timed out runs neither read,
\* keeps the chunk of an earlier iteration and goes on to the
\* `if not chunk: break` check of line 418, which ends the loop.
C22_TimeoutReachesChunkCheck ==
    [][(TimedOut /\ h_pc' # h_pc) => (chunk' = chunk /\ h_pc' = "end")]_vars

\* C22 amended: the check of line 418 is only reached in an iteration whose
\* select reported a stream, and it tests the chunk read from that stream
\* in the same iteration; an iteration whose select timed out ends in the
\* raise of line 404 and never in the break; and the chunk an earlier
\* iteration left behind is never empty.
C22_ChunkCheckedIsFresh ==
    [][/\ h_pc = "read" => ready # {}
       /\ (h_pc = "read" /\ h_pc' # h_pc) => chunk' = pipe[ReadFrom(ready)]
       /\ (TimedOut /\ h_pc' # h_pc) =>
            /\ h_pc' = "raised"
            /\ error' = TimeoutError
       /\ h_pc \in {"select", "drain"} => chunk # <<>>
       /\ (h_pc # "end" /\ h_pc' = "end") => (h_pc = "check" \/ chunk' = <<>>)]_vars

\* a select timed out after an earlier iteration had read a chunk, and the
\* attempt ended in the raise of line 404
C22_Witness ==
    /\ h_pc = "raised"
    /\ error = TimeoutError
    /\ chunk # Unbound
    /\ chunk # <<>>
    /\ become_output \o become_errput # <<>>

============================================================================
